---- MODULE Spec2Model ----
(***************************************************************************)
(* A model of src/src/main.rs: a rotating, texture-mapped sphere drawn as  *)
(* text.  main() opens ./data/s, reads the texture map, and loops forever: *)
(* draw a frame, write it to stdout, flush, advance the rotation, sleep,   *)
(* print the cursor-up sequence.                                           *)
(*                                                                         *)
(* Numbers.  The code computes in f32.  Two representations are used:      *)
(*  - the rotation accumulator `rot` is an exact IEEE-754 binary32 value,  *)
(*    a pair <<m, e>> standing for m * 2^e with 2^23 <= m < 2^24 (or Zero),*)
(*    and `rot += PI / 30.` is binary32 addition, round to nearest even;   *)
(*  - geometry and angles (isect, toGeometric, texture3) are fixed point   *)
(*    with Q units per 1.0 (and per radian): a vector component v stands   *)
(*    for v / Q, an angle t for t / Q radians.  sqrt is the integer square *)
(*    root, acos a table of round(acos(q / Q) * Q).                        *)
(* Characters are strings of length 1; a String is a sequence of them.     *)
(* The maps are ASCII, so a glyph is one byte of the frame buffer.         *)
(***************************************************************************)
EXTENDS Integers, Sequences, FiniteSets, TLC

VARIABLES
    fs,        \* the environment: what ./data/s is (fixed at start)
    pc,        \* main's position
    contents,  \* main.rs:308  let mut contents = String::new()
    w,         \* main.rs:312  let mut w: u8
    rot,       \* main.rs:348  let mut rot = 0.   (binary32)
    buf,       \* main.rs:350  let buf = draw(w, rot, &contents)
    frame,     \* number of the loop iteration, counting from 0
    sbuf,      \* bytes pending in stdout's LineWriter buffer
    tty,       \* every byte the terminal has accepted, in order
    closed,    \* the terminal is closed: writes to it fail
    base,      \* Len(tty) + Len(sbuf) when this iteration's write began
    log,       \* the events of the loop so far, in order
    tin,       \* texture3 applied on its own: the arguments
    tout       \* texture3 applied on its own: locals and result

vars == <<fs, pc, contents, w, rot, buf, frame, sbuf, tty, closed, base, log, tin, tout>>

progVars == <<fs, pc, contents, w, rot, buf, frame, sbuf, tty, closed, base, log>>

texVars == <<tin, tout>>

-----------------------------------------------------------------------------
(* Numbers *)

\* fixed-point units per 1.0 and per radian
Q == 2^8

\* std::f32::consts::PI, in angle units: round(pi * Q)
PI == 804

\* a NaN f32: an integer no fixed-point computation of the model produces
NaN == -(2^30)

\* Option::None; Some(v) is <<v>>
None == <<>>

Some(v) == <<v>>

\* a glyph that is no glyph: the call panicked
Panic == "panic"

\* a usize that is no usize: the computation panicked
NoIndex == 0 - 1

IsNum(v) == v # NaN

RECURSIVE SqrtSearch(_, _, _)
SqrtSearch(n, lo, hi) ==
    IF lo >= hi THEN lo
    ELSE LET mid == (lo + hi + 1) \div 2
         IN  IF mid * mid <= n THEN SqrtSearch(n, mid, hi)
             ELSE SqrtSearch(n, lo, mid - 1)

\* f32::sqrt on a fixed-point square: the largest r with r * r <= n
Sqrt(n) == SqrtSearch(n, 0, 2^11)

AcosTable ==
<<
    804, 782, 772, 765, 759, 754, 749, 744, 740, 736, 732, 729, 726, 722, 719, 716, 713, 710, 708,
    705, 702, 700, 697, 695, 693, 690, 688, 686, 683, 681, 679, 677, 675, 673, 671, 669, 667, 665,
    663, 661, 659, 657, 656, 654, 652, 650, 648, 647, 645, 643, 642, 640, 638, 637, 635, 633, 632,
    630, 628, 627, 625, 624, 622, 621, 619, 618, 616, 615, 613, 612, 610, 609, 607, 606, 605, 603,
    602, 600, 599, 598, 596, 595, 593, 592, 591, 589, 588, 587, 585, 584, 583, 581, 580, 579, 578,
    576, 575, 574, 572, 571, 570, 569, 567, 566, 565, 564, 562, 561, 560, 559, 557, 556, 555, 554,
    553, 551, 550, 549, 548, 547, 546, 544, 543, 542, 541, 540, 538, 537, 536, 535, 534, 533, 532,
    530, 529, 528, 527, 526, 525, 524, 523, 521, 520, 519, 518, 517, 516, 515, 514, 513, 511, 510,
    509, 508, 507, 506, 505, 504, 503, 502, 501, 499, 498, 497, 496, 495, 494, 493, 492, 491, 490,
    489, 488, 487, 486, 485, 483, 482, 481, 480, 479, 478, 477, 476, 475, 474, 473, 472, 471, 470,
    469, 468, 467, 466, 465, 464, 463, 462, 461, 460, 459, 458, 457, 456, 454, 453, 452, 451, 450,
    449, 448, 447, 446, 445, 444, 443, 442, 441, 440, 439, 438, 437, 436, 435, 434, 433, 432, 431,
    430, 429, 428, 427, 426, 425, 424, 423, 422, 421, 420, 419, 418, 417, 416, 415, 414, 413, 412,
    411, 410, 409, 408, 407, 406, 405, 404, 403, 402, 401, 400, 399, 398, 397, 396, 395, 394, 393,
    392, 391, 390, 389, 388, 387, 386, 385, 384, 383, 382, 381, 380, 379, 378, 377, 376, 375, 374,
    373, 372, 371, 370, 369, 368, 367, 366, 365, 364, 363, 362, 361, 360, 359, 358, 357, 356, 355,
    354, 353, 352, 351, 350, 349, 348, 347, 346, 345, 344, 343, 342, 341, 340, 338, 337, 336, 335,
    334, 333, 332, 331, 330, 329, 328, 327, 326, 325, 324, 323, 322, 321, 320, 319, 318, 317, 315,
    314, 313, 312, 311, 310, 309, 308, 307, 306, 305, 304, 303, 302, 300, 299, 298, 297, 296, 295,
    294, 293, 292, 291, 290, 288, 287, 286, 285, 284, 283, 282, 281, 279, 278, 277, 276, 275, 274,
    273, 272, 270, 269, 268, 267, 266, 265, 263, 262, 261, 260, 259, 258, 256, 255, 254, 253, 252,
    250, 249, 248, 247, 246, 244, 243, 242, 241, 239, 238, 237, 236, 234, 233, 232, 231, 229, 228,
    227, 225, 224, 223, 222, 220, 219, 218, 216, 215, 214, 212, 211, 209, 208, 207, 205, 204, 202,
    201, 200, 198, 197, 195, 194, 192, 191, 190, 188, 187, 185, 184, 182, 180, 179, 177, 176, 174,
    173, 171, 169, 168, 166, 164, 163, 161, 159, 158, 156, 154, 152, 151, 149, 147, 145, 143, 141,
    139, 137, 135, 133, 131, 129, 127, 125, 123, 121, 119, 116, 114, 112, 109, 107, 104, 102, 99,
    97, 94, 91, 88, 85, 82, 79, 75, 72, 68, 64, 60, 56, 51, 45, 39, 32, 23, 0 >>

\* f32::acos of q / Q, in angle units; q in -Q .. Q
Acos(q) == AcosTable[q + Q + 1]

\* the % of f32 (b > 0): the remainder has the sign of the dividend; NaN stays
Rem(a, b) ==
    IF ~IsNum(a) THEN NaN
    ELSE IF a >= 0 THEN a % b ELSE -((-a) % b)

\* `as usize` of an f32: truncation toward zero, saturating; NaN is 0
AsUsize(v) ==
    IF ~IsNum(v) THEN 0
    ELSE IF v < 0 THEN 0 ELSE v

\* f32 addition where NaN propagates
FAdd(a, b) == IF IsNum(a) /\ IsNum(b) THEN a + b ELSE NaN

\* f32 `a * n / d` of an angle a by numbers n, d: NaN propagates
FMulDiv(a, n, d) ==
    IF ~IsNum(a) THEN NaN
    ELSE IF a >= 0 THEN (a * n) \div d ELSE -(((-a) * n) \div d)

-----------------------------------------------------------------------------
(* binary32 values m * 2^e for rot, with 2^23 <= m < 2^24 *)

Zero == <<0, 0>>

MantHi == 2^24

\* PI / 30. as the compiler folds it: 0.10471975803375244 = 14055248 * 2^-27
STEP == <<14055248, -27>>

\* m * 2^e brought back to 24 bits of mantissa (m < 2^25 after an addition)
Normal(m, e) == IF m >= MantHi THEN <<m \div 2, e + 1>> ELSE <<m, e>>

\* round to nearest, ties to even: s + r / 2^d with 0 <= r < 2^d
RoundEven(s, r, d) ==
    IF d = 0 THEN s
    ELSE LET half == 2^(d - 1)
         IN  IF r > half \/ (r = half /\ s % 2 = 1) THEN s + 1 ELSE s

\* hi + lo for hi >= lo > 0, exponents d = hi[2] - lo[2] apart
AddOrdered(hi, lo) ==
    LET d == hi[2] - lo[2]
    IN  IF d >= 25 THEN hi
        ELSE LET q == lo[1] \div 2^d
                 r == lo[1] % 2^d
                 s == hi[1] + q
             IN  IF s < MantHi
                 THEN Normal(RoundEven(s, r, d), hi[2])
                 ELSE Normal(RoundEven(s \div 2, (s % 2) * 2^d + r, d + 1), hi[2] + 1)

\* a < b for binary32 values >= 0
F32Less(a, b) ==
    IF a[1] = 0 THEN b[1] # 0
    ELSE IF b[1] = 0 THEN FALSE
    ELSE a[2] < b[2] \/ (a[2] = b[2] /\ a[1] < b[1])

\* main.rs:353  rot += PI / 30.   (binary32 addition of values >= 0)
F32Add(a, b) ==
    IF a[1] = 0 THEN b
    ELSE IF b[1] = 0 THEN a
    ELSE IF F32Less(a, b) THEN AddOrdered(b, a) ELSE AddOrdered(a, b)

\* a binary32 angle >= 0 in angle units: floor(m * 2^e * Q)
ToAngle(f) ==
    LET k == f[2] + 8
    IN  IF k >= 0 THEN f[1] * 2^k ELSE f[1] \div 2^(-k)

-----------------------------------------------------------------------------
(* Vec3, isect, toGeometric *)

\* main.rs:56  Vec3::new
Vec3(x, y, z) == [x |-> x, y |-> y, z |-> z]

\* main.rs:99  impl Add for Vec3
Add(a, b) == Vec3(a.x + b.x, a.y + b.y, a.z + b.z)

\* main.rs:123  impl Mul<f32> for Vec3; the scalar is fixed point
Mul(v, t) == Vec3((v.x * t) \div Q, (v.y * t) \div Q, (v.z * t) \div Q)

\* main.rs:205  let A = a.powi(2) + b.powi(2) + c.powi(2)
QuadA(d) == (d.x * d.x + d.y * d.y + d.z * d.z) \div Q

\* main.rs:206  let B = 2. * z0 * c
QuadB(o, d) == (2 * o.z * d.z) \div Q

\* the radius term left out of C: C = z0^2
QuadCNoRadius(o) == (o.z * o.z) \div Q

\* main.rs:207  let C = z0.powi(2) - 1.
QuadC(o) == (o.z * o.z) \div Q - Q

\* main.rs:209  B.powi(2) - 4. * A * C, in units of 1 / Q^2
Disc(o, d) == QuadB(o, d) * QuadB(o, d) - 4 * QuadA(d) * QuadC(o)

\* main.rs:209-210  the smaller root t, or None
NearRoot(o, d) ==
    IF Disc(o, d) < 0 THEN None
    ELSE Some(((-QuadB(o, d) - Sqrt(Disc(o, d))) * Q) \div (2 * QuadA(d)))

\* main.rs:186-219
isect(o, d) ==
    LET t == NearRoot(o, d)
    IN  IF t = None THEN None
        ELSE Some(Add(Vec3(0, 0, o.z), Mul(d, t[1])))

\* main.rs:223-227  fn angle
angle(x, y, dot) ==
    LET magnitude_b == Sqrt(x * x + y * y)
    IN  IF magnitude_b = 0 THEN NaN
        ELSE Acos((dot * Q) \div magnitude_b)

\* main.rs:221-236
toGeometric(p) ==
    [lat |-> angle(p.y, p.z, -p.y), long |-> angle(p.x, p.z, -p.x)]

-----------------------------------------------------------------------------
(* Strings and texture3 *)

\* the positions of c in s
Positions(s, c) == {i \in 1..Len(s) : s[i] = c}

\* map.find('\n'): the 0-based index of the first line break, or None
Find(s, c) ==
    IF Positions(s, c) = {} THEN None
    ELSE Some((CHOOSE i \in Positions(s, c) : \A j \in Positions(s, c) : i <= j) - 1)

\* map.chars().filter(|&c| c == '\n').count()
Count(s, c) == Cardinality(Positions(s, c))

\* the 1-based position of the k-th c of s (k >= 1); 0 for k = 0
KthPos(s, c, k) ==
    IF k = 0 THEN 0
    ELSE CHOOSE i \in Positions(s, c) :
             Cardinality({j \in Positions(s, c) : j <= i}) = k

\* map.split('\n').collect(): Count + 1 pieces, indexed from 1 here
Split(s, c) ==
    [k \in 1..(Count(s, c) + 1) |->
        SubSeq(s, KthPos(s, c, k - 1) + 1,
               IF k <= Count(s, c) THEN KthPos(s, c, k) - 1 ELSE Len(s))]

\* main.rs:248  map[..map.find('\n').unwrap()].chars().count()
FirstRowWidth(map) ==
    IF Find(map, "\n") = None THEN NoIndex ELSE Find(map, "\n")[1]

\* main.rs:241  ((coords.long + rot) + (PI * 2.)) % (PI * 2.)
RotatedLong(long, r) == Rem(FAdd(FAdd(long, r), PI * 2), PI * 2)

\* main.rs:251  let x = long * w / (2. * PI)
ScaleX(long, wd) == FMulDiv(long, wd, 2 * PI)

\* main.rs:252  let y = (lat + 0.) * h / PI
ScaleY(lat, h) == FMulDiv(lat, h, PI)

\* the last row taken to be h - 1: (h - 1) as usize - y as usize
RowIndexFromLast(h, y) == IF AsUsize(y) > h - 1 THEN NoIndex ELSE h - 1 - AsUsize(y)

\* main.rs:254  h as usize - y as usize: a usize subtraction
RowIndex(h, y) == IF AsUsize(y) > h THEN NoIndex ELSE h - AsUsize(y)

\* the default taken from the code after the return: '\u{2800}' (main.rs:271)
NthOrBraille(line, x) == IF x + 1 <= Len(line) THEN line[x + 1] ELSE "U+2800"

\* main.rs:254  .chars().nth(x as usize).unwrap_or(' ')
NthOrBlank(line, x) == IF x + 1 <= Len(line) THEN line[x + 1] ELSE " "

\* main.rs:254  lines[row], then the glyph of the line
Lookup(lines, row, x) ==
    IF row = NoIndex \/ row + 1 > Len(lines) THEN Panic
    ELSE NthOrBlank(lines[row + 1], x)

\* main.rs:241-254 given the map's lines, width and height:
\* the locals long, x, y, the row, and the glyph returned
Sample(coords, r, lines, wd, h) ==
    LET long == RotatedLong(coords.long, r)
        x    == ScaleX(long, wd)
        y    == ScaleY(coords.lat, h)
        row  == RowIndex(h, y)
    IN  [long |-> long, x |-> x, y |-> y, col |-> AsUsize(x), row |-> row,
         glyph |-> Lookup(lines, row, AsUsize(x))]

\* main.rs:238-254  texture3, with its locals; map has a line break
Texture3Locals(coords, r, map) ==
    Sample(coords, r, Split(map, "\n"), FirstRowWidth(map), Count(map, "\n"))

\* main.rs:238-254
texture3(coords, r, map) ==
    IF FirstRowWidth(map) = NoIndex THEN Panic
    ELSE Texture3Locals(coords, r, map).glyph

-----------------------------------------------------------------------------
(* draw *)

\* main.rs:336  the camera, Vec3 {x: 0., y: 0., z: -1.5}
Camera == Vec3(0, 0, -(3 * Q) \div 2)

\* main.rs:336-340  the direction of the ray through pixel (x, y) of a w-wide grid
Ray(x, y, wd) == Vec3((x * 4 * Q) \div wd - 2 * Q, Q - (y * 8 * Q) \div wd, Q)

\* main.rs:336-340  isect(..).map(toGeometric).map_or(' ', |asdf| texture3(..))
Pixel(x, y, wd, r, lines, mw, mh) ==
    LET hit == isect(Camera, Ray(x, y, wd))
    IN  IF hit = None THEN " "
        ELSE IF mw = NoIndex THEN Panic
        ELSE Sample(toGeometric(hit[1]), r, lines, mw, mh).glyph

\* main.rs:332  for y in 0..w/4
Rows(wd) == wd \div 4

\* main.rs:329-346  the frame buffer: w / 4 rows of w glyphs and a line break
draw(wd, r, map) ==
    LET lines == Split(map, "\n")
        mw    == FirstRowWidth(map)
        mh    == Count(map, "\n")
        n     == Rows(wd) * (wd + 1)
    IN  IF n = 0 THEN <<>>
        ELSE [i \in 1..n |->
                IF i % (wd + 1) = 0 THEN "\n"
                ELSE Pixel((i - 1) % (wd + 1), (i - 1) \div (wd + 1), wd,
                           r, lines, mw, mh)]

\* a panic inside draw leaves no frame
Panicked(b) == \E i \in 1..Len(b) : b[i] = Panic

-----------------------------------------------------------------------------
(* stdout: a LineWriter of 1024 bytes over the terminal.  A stdout state is  *)
(* [sbuf, tty, closed, ok]: the bytes pending, the bytes the terminal has    *)
(* accepted, whether the terminal is closed (every write to it fails from    *)
(* then on), and whether the last operation returned Ok.                     *)

\* LineWriter::new: the capacity of stdout's buffer
Capacity == 1024

Out(sb, t, c, ok) == [sbuf |-> sb, tty |-> t, closed |-> c, ok |-> ok]

\* BufWriter::flush_buf: everything pending goes to the terminal, or an error
FlushBuf(so) ==
    IF so.sbuf = <<>> THEN Out(so.sbuf, so.tty, so.closed, TRUE)
    ELSE IF so.closed THEN Out(so.sbuf, so.tty, so.closed, FALSE)
    ELSE Out(<<>>, so.tty \o so.sbuf, so.closed, TRUE)

\* LineWriterShim::flush_if_completed_line
FlushIfCompletedLine(so) ==
    IF so.sbuf # <<>> /\ so.sbuf[Len(so.sbuf)] = "\n" THEN FlushBuf(so)
    ELSE Out(so.sbuf, so.tty, so.closed, TRUE)

\* BufWriter::write_all of bytes without a line break
BufWriteAll(so, bytes) ==
    IF Len(bytes) < Capacity - Len(so.sbuf)
    THEN Out(so.sbuf \o bytes, so.tty, so.closed, TRUE)
    ELSE LET f == IF Len(bytes) > Capacity - Len(so.sbuf) THEN FlushBuf(so)
                  ELSE Out(so.sbuf, so.tty, so.closed, TRUE)
         IN  IF ~f.ok THEN f
             ELSE IF Len(bytes) < Capacity
             THEN Out(f.sbuf \o bytes, f.tty, f.closed, TRUE)
             ELSE IF f.closed THEN Out(f.sbuf, f.tty, f.closed, FALSE)
             ELSE Out(f.sbuf, f.tty \o bytes, f.closed, TRUE)

\* LineWriterShim::write_all of bytes without a line break
WriteAllNoNewline(so, bytes) ==
    LET f == FlushIfCompletedLine(so)
    IN  IF ~f.ok THEN f ELSE BufWriteAll(f, bytes)

\* the 1-based position of the last line break of s, 0 when it has none
LastNewline(s) ==
    IF Positions(s, "\n") = {} THEN 0
    ELSE CHOOSE i \in Positions(s, "\n") : \A j \in Positions(s, "\n") : j <= i

\* LineWriterShim::write: what is buffered of bytes (ending in a line break)
\* after the terminal accepted its first k
BufferedTail(bytes, k) ==
    IF k >= Len(bytes) THEN <<>>
    ELSE IF Len(bytes) - k <= Capacity THEN SubSeq(bytes, k + 1, Len(bytes))
    ELSE LET scan == SubSeq(bytes, k + 1, k + Capacity)
         IN  IF LastNewline(scan) = 0 THEN scan
             ELSE SubSeq(scan, 1, LastNewline(scan))

\* main.rs:351  stdout().write(&buf): LineWriterShim::write; one write to the
\* terminal, which accepts k of the bytes
Write(so, bytes, k) ==
    IF Positions(bytes, "\n") = {} THEN WriteAllNoNewline(so, bytes)
    ELSE LET f == FlushBuf(so)
         IN  IF ~f.ok THEN f
             ELSE IF f.closed THEN Out(f.sbuf, f.tty, f.closed, FALSE)
             ELSE Out(BufferedTail(bytes, k), f.tty \o SubSeq(bytes, 1, k), f.closed, TRUE)

\* main.rs:352  stdout().flush()
Flush(so) == FlushBuf(so)

Digits == <<"0", "1", "2", "3", "4", "5", "6", "7", "8", "9">>

RECURSIVE Decimal(_)
\* the {} of a usize: its decimal digits
Decimal(n) ==
    IF n < 10 THEN <<Digits[n + 1]>>
    ELSE Append(Decimal(n \div 10), Digits[(n % 10) + 1])

\* main.rs:355  buf.iter().filter(|&&c| c == b'\n').count()
Newlines(b) == Count(b, "\n")

\* main.rs:355  the pieces of "\r\x1B[{}A"; "ESC" is the byte 0x1B
CursorUp(n) == <<"\r", "ESC", "[">> \o Decimal(n) \o <<"A">>

\* main.rs:355  print!: the pieces "\r\x1B[", the count, "A" are written in
\* turn; it panics when one of them fails (ok = FALSE)
print(so, n) ==
    LET p1 == WriteAllNoNewline(so, <<"\r", "ESC", "[">>)
        p2 == IF p1.ok THEN WriteAllNoNewline(p1, Decimal(n)) ELSE p1
        p3 == IF p2.ok THEN WriteAllNoNewline(p2, <<"A">>) ELSE p2
    IN  p3

-----------------------------------------------------------------------------
(* The files ./data/s can be *)

\* the rows of a grid of letters, each followed by a line break
GridMap(rows, cols) ==
    [i \in 1..(rows * (cols + 1)) |->
        IF i % (cols + 1) = 0 THEN "\n"
        ELSE <<"a", "b", "c", "d">>[(((i - 1) \div (cols + 1) + i) % 4) + 1]]

\* the same character n times
Repeat(c, n) == [i \in 1..n |-> c]

\* the minimal map "X\n"
MapX == <<"X", "\n">>

\* 4 rows of 16 letters, every row ended by a line break
Map16 == GridMap(4, 16)

\* the same without the line break after the last row
Map16Open == SubSeq(Map16, 1, Len(Map16) - 1)

\* rows of unequal length: "abcdefgh\nxy\n\n"
MapRagged == <<"a", "b", "c", "d", "e", "f", "g", "h", "\n", "x", "y", "\n", "\n">>

\* 16 rows of 64 '#'
MapHash == [i \in 1..(16 * 65) |-> IF i % 65 = 0 THEN "\n" ELSE "#"]

\* one row of 272 '#': wider than a u8 holds
MapWide == Append(Repeat("#", 272), "\n")

\* a file without any line break
NoBreak == <<"a", "b", "c">>

Maps == {MapX, Map16, Map16Open, MapRagged, MapHash, MapWide}

\* what ./data/s is: missing (open fails), unreadable (open succeeds, the read
\* fails after delivering data, possibly nothing), or a file read in full
FileStates ==
    {[kind |-> "missing", data |-> <<>>]}
    \cup {[kind |-> "unreadable", data |-> d] : d \in {<<>>, SubSeq(Map16, 1, 20)}}
    \cup {[kind |-> "ok", data |-> d] : d \in Maps \cup {NoBreak}}

-----------------------------------------------------------------------------
(* main *)

\* the number of loop iterations explored
MaxFrames == 2

\* main.rs:312  `as u8`
AsU8(n) == n % 2^8

\* how many of n bytes the terminal may accept in one write
Accepted(n) == {k \in {1, n \div 2, n} : 1 <= k /\ k <= n} \cup {n}

Event(e) == [ev |-> e, n |-> frame, rot |-> rot]

\* main.rs:349-356  the order of the loop's statements
LoopNext(p) ==
    CASE p = "draw"    -> "write"
      [] p = "write"   -> "flush"
      [] p = "flush"   -> "advance"
      [] p = "advance" -> "sleep"
      [] p = "sleep"   -> "print"
      [] p = "print"   -> "draw"

InitProg ==
    /\ fs \in FileStates
    /\ pc = "open"
    /\ contents = <<>>
    /\ w = 0
    /\ rot = Zero
    /\ buf = <<>>
    /\ frame = 0
    /\ sbuf = <<>>
    /\ tty = <<>>
    /\ closed = FALSE
    /\ base = 0
    /\ log = <<>>

NoTex == [done |-> FALSE, long |-> 0, x |-> 0, y |-> 0, col |-> 0, row |-> 0,
          glyph |-> " "]

NoTexInput == [lat |-> 0, long |-> 0, rot |-> 0, map |-> MapX]

Init == InitProg /\ tin = NoTexInput /\ tout = NoTex

\* main.rs:306  let Ok(mut file) = File::open("./data/s") else { return }
Open ==
    /\ pc = "open"
    /\ pc' = IF fs.kind = "missing" THEN "returned" ELSE "read"
    /\ UNCHANGED <<fs, contents, w, rot, buf, frame, sbuf, tty, closed, base, log>>
    /\ UNCHANGED texVars

\* main.rs:308-309  let _ = file.read_to_string(&mut contents): the data read
\* before an error stays in contents, and the error is dropped
Read ==
    /\ pc = "read"
    /\ contents' = fs.data
    /\ pc' = "width"
    /\ UNCHANGED <<fs, w, rot, buf, frame, sbuf, tty, closed, base, log>>
    /\ UNCHANGED texVars

\* main.rs:312  the width of the first row, as u8; unwrap panics without a
\* line break.  main.rs:328  w *= 1 changes nothing.  main.rs:348  rot = 0.
Width ==
    /\ pc = "width"
    /\ IF Find(contents, "\n") = None
       THEN pc' = "unwrap_panic" /\ w' = w
       ELSE pc' = "draw" /\ w' = AsU8(FirstRowWidth(contents))
    /\ UNCHANGED <<fs, contents, rot, buf, frame, sbuf, tty, closed, base, log>>
    /\ UNCHANGED texVars

\* main.rs:350  let buf = draw(w, rot, &contents)
Draw ==
    /\ pc = "draw"
    /\ frame < MaxFrames
    /\ LET b == draw(w, ToAngle(rot), contents)
       IN  IF Panicked(b)
           THEN pc' = "draw_panic" /\ UNCHANGED <<buf, log>>
           ELSE pc' = LoopNext(pc) /\ buf' = b
                /\ log' = Append(log, Event("render"))
    /\ UNCHANGED <<fs, contents, w, rot, frame, sbuf, tty, closed, base>>
    /\ UNCHANGED texVars

\* main.rs:351  let _ = stdout().write(&buf)
WriteFrame ==
    /\ pc = "write"
    /\ \E closeNow \in (IF closed THEN {FALSE} ELSE BOOLEAN) :
       \E k \in Accepted(Len(buf)) :
          LET so == Write(Out(sbuf, tty, closed \/ closeNow, TRUE), buf, k)
          IN  sbuf' = so.sbuf /\ tty' = so.tty /\ closed' = so.closed
    /\ base' = Len(tty) + Len(sbuf)
    /\ log' = Append(log, Event("write"))
    /\ pc' = LoopNext(pc)
    /\ UNCHANGED <<fs, contents, w, rot, buf, frame>>
    /\ UNCHANGED texVars

\* main.rs:352  let _ = stdout().flush()
FlushFrame ==
    /\ pc = "flush"
    /\ \E closeNow \in (IF closed THEN {FALSE} ELSE BOOLEAN) :
          LET so == Flush(Out(sbuf, tty, closed \/ closeNow, TRUE))
          IN  sbuf' = so.sbuf /\ tty' = so.tty /\ closed' = so.closed
    /\ log' = Append(log, Event("flush"))
    /\ pc' = LoopNext(pc)
    /\ UNCHANGED <<fs, contents, w, rot, buf, frame, base>>
    /\ UNCHANGED texVars

\* main.rs:353  rot += PI / 30.
Advance ==
    /\ pc = "advance"
    /\ rot' = F32Add(rot, STEP)
    /\ log' = Append(log, Event("advance"))
    /\ pc' = LoopNext(pc)
    /\ UNCHANGED <<fs, contents, w, buf, frame, sbuf, tty, closed, base>>
    /\ UNCHANGED texVars

\* main.rs:354  sleep(Duration::from_millis(1000 / 60))
Sleep ==
    /\ pc = "sleep"
    /\ log' = Append(log, Event("sleep"))
    /\ pc' = LoopNext(pc)
    /\ UNCHANGED <<fs, contents, w, rot, buf, frame, sbuf, tty, closed, base>>
    /\ UNCHANGED texVars

\* main.rs:355  print!("\r\x1B[{}A", ..), then the next iteration
PrintCursorUp ==
    /\ pc = "print"
    /\ \E closeNow \in (IF closed THEN {FALSE} ELSE BOOLEAN) :
          LET so == print(Out(sbuf, tty, closed \/ closeNow, TRUE), Newlines(buf))
          IN  /\ sbuf' = so.sbuf /\ tty' = so.tty /\ closed' = so.closed
              /\ IF so.ok
                 THEN pc' = LoopNext(pc) /\ frame' = frame + 1
                      /\ log' = Append(log, Event("cursor"))
                 ELSE pc' = "print_panic" /\ UNCHANGED <<frame, log>>
    /\ UNCHANGED <<fs, contents, w, rot, buf, base>>
    /\ UNCHANGED texVars

Next ==
    \/ Open
    \/ Read
    \/ Width
    \/ Draw
    \/ WriteFrame
    \/ FlushFrame
    \/ Advance
    \/ Sleep
    \/ PrintCursorUp

Spec == Init /\ [][Next]_vars

-----------------------------------------------------------------------------
(* texture3 on its own: the arguments are drawn, the function is applied *)

\* latitudes k * PI / LatSteps
LatSteps == 12

\* longitudes k * PI / LongSteps
LongSteps == 6

\* rotations j * PI / 2 for |j| <= 2 * RotSpan
RotSpan == 3

TexMaps == {MapX, Map16, Map16Open, MapRagged}

TexInputs ==
    [lat  : {(k * PI) \div LatSteps : k \in 0..LatSteps} \cup {NaN},
     long : {(k * PI) \div LongSteps : k \in 0..LongSteps} \cup {NaN},
     rot  : {(j * PI) \div 2 : j \in (-2 * RotSpan)..(2 * RotSpan)},
     map  : TexMaps]

InitTex ==
    /\ fs = [kind |-> "missing", data |-> <<>>]
    /\ pc = "open"
    /\ contents = <<>>
    /\ w = 0
    /\ rot = Zero
    /\ buf = <<>>
    /\ frame = 0
    /\ sbuf = <<>>
    /\ tty = <<>>
    /\ closed = FALSE
    /\ base = 0
    /\ log = <<>>
    /\ tin \in TexInputs
    /\ tout = NoTex

\* main.rs:238-254  texture3(Coords { lat, long }, rot, &map)
ApplyTexture3 ==
    /\ ~tout.done
    /\ LET l == Texture3Locals([lat |-> tin.lat, long |-> tin.long], tin.rot, tin.map)
       IN  tout' = [done |-> TRUE, long |-> l.long, x |-> l.x, y |-> l.y,
                    col |-> l.col, row |-> l.row,
                    glyph |-> texture3([lat |-> tin.lat, long |-> tin.long],
                                       tin.rot, tin.map)]
    /\ UNCHANGED tin
    /\ UNCHANGED progVars

NextTex == ApplyTexture3

SpecTex == InitTex /\ [][NextTex]_vars

-----------------------------------------------------------------------------
(* rot += PI / 30. on its own.  The accumulator starts at 0 and grows by     *)
(* less than 0.125 per addition, so it enters the binade [2^20, 2^21), where *)
(* the binary32 values are the multiples of 0.125.  There STEP (0.1047..)    *)
(* rounds to one unit, so from the value where it enters on, every multiple  *)
(* of 0.125 up to 2^21 is taken: the values 2^21 - k / 8 for small k are    *)
(* values of rot in the program (after about 17.8 million frames), and the   *)
(* additions are followed from there, and from 0.                            *)

\* how far below 2^21 the additions are followed from
TailLen == 40

\* how many additions are followed
MaxAdds == 50

RotStarts == {Zero} \cup {<<MantHi - k, -3>> : k \in 1..TailLen}

InitRot ==
    /\ fs = [kind |-> "ok", data |-> MapX]
    /\ pc = "advance"
    /\ contents = MapX
    /\ w = 1
    /\ rot \in RotStarts
    /\ buf = <<>>
    /\ frame = 0
    /\ sbuf = <<>>
    /\ tty = <<>>
    /\ closed = FALSE
    /\ base = 0
    /\ log = <<>>
    /\ tin = NoTexInput
    /\ tout = NoTex

\* main.rs:353  rot += PI / 30., once per iteration
Accumulate ==
    /\ frame < MaxAdds
    /\ rot' = F32Add(rot, STEP)
    /\ frame' = frame + 1
    /\ UNCHANGED <<fs, pc, contents, w, buf, sbuf, tty, closed, base, log>>
    /\ UNCHANGED texVars

NextRot == Accumulate

SpecRot == InitRot /\ [][NextRot]_vars

-----------------------------------------------------------------------------
(* The loop late in a run: main's loop from the iteration in which rot has   *)
(* one of its last values, 2^21 - k / 8 or 2^21 itself (the value the        *)
(* additions above arrive at).  The map is made of one character, so that    *)
(* the frame does not depend on how the longitude is rounded at this         *)
(* magnitude.                                                                *)

\* 2 rows of 8 '#'
Map8Hash == [i \in 1..18 |-> IF i % 9 = 0 THEN "\n" ELSE "#"]

LateStarts == {<<2^23, -2>>} \cup {<<MantHi - k, -3>> : k \in 1..2}

InitLate ==
    /\ fs = [kind |-> "ok", data |-> Map8Hash]
    /\ pc = "draw"
    /\ contents = Map8Hash
    /\ w = 8
    /\ rot \in LateStarts
    /\ buf = <<>>
    /\ frame = 0
    /\ sbuf = <<>>
    /\ tty = <<>>
    /\ closed = FALSE
    /\ base = 0
    /\ log = <<>>
    /\ tin = NoTexInput
    /\ tout = NoTex

\* main.rs:349-356  loop { .. }
NextLate ==
    \/ Draw
    \/ WriteFrame
    \/ FlushFrame
    \/ Advance
    \/ Sleep
    \/ PrintCursorUp

SpecLate == InitLate /\ [][NextLate]_vars

-----------------------------------------------------------------------------
(* The claims *)

\* buf holds the frame of the current iteration
FrameReady == pc \in {"write", "flush", "advance", "sleep", "print"}

\* the characters of a string
Chars(str) == {str[i] : i \in 1..Len(str)}

\* the glyph of pixel (x, y) in a frame of rows of wd glyphs and a line break
GlyphAt(b, x, y, wd) == b[y * (wd + 1) + x + 1]

\* b is rows rows of cols glyphs, each row followed by one line break
IsGrid(b, rows, cols) ==
    /\ Len(b) = rows * (cols + 1)
    /\ \A i \in 1..Len(b) : (b[i] = "\n") <=> (i % (cols + 1) = 0)

\* the bytes of the current frame that the terminal has accepted
Delivered == IF Len(tty) > base THEN SubSeq(tty, base + 1, Len(tty)) ELSE <<>>

\* C1: every frame has floor(width / 4) rows of width glyphs and a line
\* break, width being the character count of the map's first row (whatever
\* it is, 256 and above included), and draw's w is that width.
C1_FrameHasMapWidth ==
    FrameReady =>
        /\ w = FirstRowWidth(contents)
        /\ IsGrid(buf, FirstRowWidth(contents) \div 4, FirstRowWidth(contents))

\* C2: every glyph of a frame, line breaks aside, is the blank or a character
\* of the texture map; the map of 16 rows of 64 '#' gives frames of 16 rows
\* by 64 columns of '#' and blank.
C2_GlyphsComeFromMap ==
    FrameReady =>
        /\ LET glyphs == {buf[i] : i \in {j \in 1..Len(buf) : j % (w + 1) # 0}}
           IN  glyphs \subseteq ({" "} \cup Chars(contents))
        /\ contents = MapHash =>
              /\ IsGrid(buf, 16, 64)
              /\ Chars(buf) \subseteq {"#", " ", "\n"}

\* C2's case: a frame of the '#' map at a rotation other than 0, with '#'
\* and blank glyphs
C2_Witness ==
    /\ FrameReady
    /\ contents = MapHash
    /\ rot # Zero
    /\ {"#", " "} \subseteq Chars(buf)

\* the discriminant as C3 states it: B^2 - 4AC with A = a^2 + b^2 + c^2,
\* B = 2 * z0 * c, C = z0^2 - 1, in units of 1 / Q^2
ClaimDisc(z0, a, b, c) ==
    ((2 * z0 * c) \div Q) * ((2 * z0 * c) \div Q)
    - 4 * ((a * a + b * b + c * c) \div Q) * ((z0 * z0) \div Q - Q)

\* the discriminant of the ray from (0, 0, -1.5) through pixel (x, y)
PixelDisc(x, y, wd) ==
    ClaimDisc(-(3 * Q) \div 2, (x * 4 * Q) \div wd - 2 * Q, Q - (y * 8 * Q) \div wd, Q)

\* C3: isect returns no point exactly when the discriminant is negative, and
\* draw renders every pixel whose ray has a negative discriminant as the
\* blank, at every rotation and for every map.
C3_NoHitIsBlank ==
    FrameReady =>
        \A y \in 0..(Rows(w) - 1) : \A x \in 0..(w - 1) :
            /\ (isect(Camera, Ray(x, y, w)) = None) <=> (PixelDisc(x, y, w) < 0)
            /\ PixelDisc(x, y, w) < 0 => GlyphAt(buf, x, y, w) = " "

\* C3's case: a frame at a rotation other than 0 with a pixel that misses the
\* sphere, drawn blank, and a pixel that hits it, drawn with a map character
C3_Witness ==
    /\ FrameReady
    /\ rot # Zero
    /\ \E y \in 0..(Rows(w) - 1) : \E x \in 0..(w - 1) :
          PixelDisc(x, y, w) < 0 /\ GlyphAt(buf, x, y, w) = " "
    /\ \E y \in 0..(Rows(w) - 1) : \E x \in 0..(w - 1) :
          PixelDisc(x, y, w) >= 0 /\ GlyphAt(buf, x, y, w) # " "

\* the map has a line break after its last row
EndsWithBreak(map) == map # <<>> /\ map[Len(map)] = "\n"

\* (row, col) is a character of the map: one of the rows 0 .. height - 1, the
\* height being the number of line breaks, and a column of that row
InMap(map, row, col) ==
    /\ 0 <= row /\ row < Count(map, "\n")
    /\ col < Len(Split(map, "\n")[row + 1])

\* texture3 was applied to a latitude in [0, PI] and its longitude is normal
SampledInRange ==
    /\ tout.done
    /\ IsNum(tin.lat) /\ 0 <= tin.lat /\ tin.lat <= PI
    /\ IsNum(tout.long) /\ 0 <= tout.long /\ tout.long < 2 * PI

C5_LongitudeNormalized ==
    (tout.done /\ IsNum(tin.long) /\ IsNum(tin.lat)) =>
        /\ 0 <= tout.long /\ tout.long < 2 * PI
        /\ 0 <= tout.col /\ tout.col < FirstRowWidth(tin.map)

\* C6: every addition of the step makes the rotation strictly greater, however
\* many iterations have gone before: it is never left as it was or decreased.
C6_RotationStrictlyIncreases == [][F32Less(rot, rot')]_vars

\* C7: with the input file missing or unreadable the process exits silently:
\* no panic, no frame rendered, nothing written.
C7_UnreadableExitsSilently ==
    fs.kind \in {"missing", "unreadable"} =>
        /\ pc \notin {"unwrap_panic", "draw_panic", "print_panic"}
        /\ log = <<>>
        /\ tty = <<>> /\ sbuf = <<>>

\* C8: once entered, the loop never ends on its own, also when writes to the
\* output fail: no failed write aborts it.
C8_LoopNeverAborts == pc \notin {"draw_panic", "print_panic"}

\* the loop's events in the order C9 gives
Order == <<"render", "write", "flush", "advance", "sleep", "cursor">>

\* the iterations follow one another in the order, each rendered once
InOrder ==
    /\ \A i \in 1..Len(log) :
          /\ log[i].ev = Order[((i - 1) % 6) + 1]
          /\ log[i].n = (i - 1) \div 6
          /\ i > 1 => log[i].rot = IF log[i].ev = "sleep"
                                   THEN F32Add(log[i - 1].rot, STEP)
                                   ELSE log[i - 1].rot
    /\ pc \in {"draw", "write", "flush", "advance", "sleep", "print"} =>
          /\ pc = <<"draw", "write", "flush", "advance", "sleep", "print">>[(Len(log) % 6) + 1]
          /\ frame = Len(log) \div 6
    /\ pc = "write" => buf = draw(w, ToAngle(rot), contents)

\* C9: the loop is strictly sequential.  The events of iteration N are, in this
\* order, render (with the rotation of iteration N), write, flush, advance,
\* sleep, cursor-up, then iteration N + 1 renders; the buffer handed to write
\* is the complete frame; no frame is skipped, and no two frames are rendered
\* with the same rotation.
C9_StrictSequence ==
    /\ InOrder
    /\ \A i, j \in 1..Len(log) :
          (i < j /\ log[i].ev = "render" /\ log[j].ev = "render") =>
              log[i].rot # log[j].rot

\* C10: in every iteration the whole frame buffer reaches the output, and the
\* cursor-up sequence carries the number of rows written.  Stated for the
\* iterations in which the terminal stays open, so that no write fails.
C10_WholeFrameWritten ==
    ~closed =>
        /\ pc \in {"advance", "sleep", "print"} => Delivered = buf
        /\ (pc = "draw" /\ frame > 0) =>
              sbuf = CursorUp(Newlines(Delivered))

====
